---- MODULE Spec2Model ----
(***************************************************************************)
(* A model of lsh (src/lsh.c): the access gate run by main (white_list,    *)
(* check_logon, login) followed by the interpreter loop (lsh_loop,         *)
(* lsh_read_line, lsh_split_line, lsh_execute, the builtins, lsh_launch).  *)
(*                                                                         *)
(* Characters are their codes (getchar returns an int; EOF is -1).  A      *)
(* buffer is the sequence of its written cells: cell i of the sequence is  *)
(* C index i-1.  A token pointer is the index of the token's first cell in *)
(* the line buffer, and NULL is 0.                                         *)
(*                                                                         *)
(* The environment is part of the model: the files and /proc as the gate   *)
(* finds them, the lines the input stream delivers, whether an allocation  *)
(* or a fork succeeds, what becomes of the forked process.  A value read   *)
(* before it was written (status in lsh_launch, input_pw and enc_str_pw in *)
(* login) is any value.  The forked program does not read the session's    *)
(* input.                                                                  *)
(*                                                                         *)
(* Standard output and the log streams are buffered as the C library       *)
(* buffers them: a text printed is in the output once it has been flushed, *)
(* a log record is in its file once its stream has been, and fork copies   *)
(* what the buffers hold.  The session runs on a terminal or on pipes.     *)
(*                                                                         *)
(* Spec is one instance of lsh and the process it forks; FairSpec adds     *)
(* that a process that can run does; Instances is several instances going  *)
(* through the session-limit check side by side.                           *)
(***************************************************************************)
EXTENDS Integers, Sequences, FiniteSets, TLC

\* ------------------------------------------------------------------ bounds
\* number of command lines the user types in one session
MaxLines == 3
\* length of the lines drawn from every combination of GenChars
MaxLen == 3
\* the long lines cover this many capacity increments of either buffer
MaxGrow == 2

\* ------------------------------------------------------- program constants
MAX_LOGIN == 1
LSH_RL_BUFSIZE == 1024
LSH_TOK_BUFSIZE == 64
EOF == -1
NUL == 0
NULL == 0
NL == 10
EXIT_SUCCESS == 0
EXIT_FAILURE == 1

\* a delimiter set that lacks the tab
LSH_TOK_DELIM_without_tab == {32, 13, 10, 7}
\* LSH_TOK_DELIM " \t\r\n\a"
LSH_TOK_DELIM == {32, 9, 13, 10, 7}

S_cd == <<99, 100>>
S_help == <<104, 101, 108, 112>>
S_exit == <<101, 120, 105, 116>>
builtin_str == <<S_cd, S_help, S_exit>>
builtin_func == <<"lsh_cd", "lsh_help", "lsh_exit">>
lsh_num_builtins == Len(builtin_str)

\* ------------------------------------------------------------- C strings
Min(S) == CHOOSE x \in S : \A y \in S : x <= y

\* the end of the C string that starts at cell p of b: the first NUL cell
StrEnd(b, p) ==
  CHOOSE i \in p..Len(b) : b[i] = NUL /\ \A j \in p..(i - 1) : b[j] /= NUL
\* the C string that starts at cell p of b
CStrAt(b, p) == SubSeq(b, p, StrEnd(b, p) - 1)
\* a comparison of the first strlen(b) characters only, as strncmp makes it
strncmp0(a, b) == Len(a) >= Len(b) /\ SubSeq(a, 1, Len(b)) = b
\* strcmp(a, b) == 0, of two C strings given by their characters
strcmp0(a, b) == a = b

\* strtok(3): p is the cell the scan starts at (line, or the saved pointer).
\* Skips delimiters; at the terminator returns NULL; otherwise the token runs
\* to the next delimiter, which is overwritten by NUL, or to the terminator.
strtok_start(b, p) ==
  CHOOSE i \in p..Len(b) :
    b[i] \notin LSH_TOK_DELIM /\ \A j \in p..(i - 1) : b[j] \in LSH_TOK_DELIM
strtok_stop(b, s) ==
  CHOOSE i \in s..Len(b) :
    /\ b[i] \in LSH_TOK_DELIM \/ b[i] = NUL
    /\ \A j \in s..(i - 1) : b[j] \notin LSH_TOK_DELIM /\ b[j] /= NUL
strtok(b, p) ==
  LET s == strtok_start(b, p)
      e == strtok_stop(b, s)
  IN  IF b[s] = NUL
        THEN [token |-> NULL, buf |-> b, save |-> s]
        ELSE IF b[e] = NUL
          THEN [token |-> s, buf |-> b, save |-> e]
          ELSE [token |-> s, buf |-> [b EXCEPT ![e] = NUL], save |-> e + 1]


\* --------------------------------------------------------------- inputs
Seqs(S, n) == UNION {[1..k -> S] : k \in 0..n}
Rep(c, n) == [i \in 1..n |-> c]

\* what the user types: command lines, ...
L_cd_root == <<99, 100, 32, 47>>
L_cd_tmp == <<99, 100, 32, 47, 116>>
L_cd_missing == <<99, 100, 32, 47, 120>>
L_exit_now == <<101, 120, 105, 116, 32, 110, 111, 119>>
L_Exit == <<69, 120, 105, 116>>
L_cdx == <<99, 100, 120>>
L_ls == <<108, 115>>
CmdLines ==
  {<<>>, S_cd, L_cd_root, L_cd_tmp, L_cd_missing, S_help, S_exit, L_exit_now, L_Exit,
   L_cdx, L_ls}
\* ... every line of at most MaxLen characters over a letter, two delimiters
\* and the NUL character, ...
GenChars == {97, 32, 9, NUL}
GenLines == Seqs(GenChars, MaxLen)
\* ... lines of one token around each multiple of the line buffer's increment
\* and lines of single-letter tokens around each multiple of the token
\* buffer's increment
Around(n) == {k * n + d : k \in 1..MaxGrow, d \in {-1, 0, 1}}
Tokens(n) == [i \in 1..(2 * n) |-> IF i % 2 = 1 THEN 97 ELSE 32]
LongLines ==
  {Rep(97, n) : n \in Around(LSH_RL_BUFSIZE)} \cup
  {Tokens(n) : n \in Around(LSH_TOK_BUFSIZE)}
\* the unterminated last lines a stream may end with
Tails == {L_ls, S_exit}

\* the file system: the directories chdir can enter, the initial directory;
\* the paths typed are absolute
Dirs == {<<47>>, <<47, 116>>}
InitialDir == <<47, 104>>

\* the gate's environment
IP_A == <<49>>
IP_B == <<50>>
ClientIPs == {IP_A, IP_B}
\* the whitelist file "list": its lines as fgets returns them
ListFiles == {<<>>, <<IP_A \o <<NL>>>>, <<IP_A \o <<NL>>, IP_B>>}
\* /proc: an entry is a non-numeric name, a pid whose status file cannot be
\* opened, a process named lsh or a process of another name
ProcKinds == {"nonpid", "gone", "lsh", "other"}
MaxProc == 3
\* the instances of lsh that are started side by side
MaxInst == 3
ProcListings == Seqs(ProcKinds, MaxProc)
\* the account file "data": "u : <encoded a>"
AccountId == <<117>>
AccountPw == <<97>>
TypedIds == {<<117, NL>>, <<118, NL>>}
TypedPws == {<<97, NL>>, <<98, NL>>}

\* ------------------------------------------------------------- the gate
\* white_list, src/lsh.c:392-405: each line loses its last character, and
\* the address is allowed when a stripped line equals it
StripLast(l) == SubSeq(l, 1, Len(l) - 1)
white_list_match(lines, ip) ==
  \E k \in 1..Len(lines) : strcmp0(StripLast(lines[k]), ip)

\* check_logon, src/lsh.c:334-370: the scan of /proc from entry i on with
\* logon_count = n; 1 as soon as the count reaches MAX_LOGIN + 1, else 0
RECURSIVE check_logon_scan(_, _, _)
check_logon_scan(dir, i, n) ==
  IF i > Len(dir) THEN 0
  ELSE IF dir[i] = "lsh"
    THEN IF n + 1 = MAX_LOGIN + 1 THEN 1 ELSE check_logon_scan(dir, i + 1, n + 1)
    ELSE check_logon_scan(dir, i + 1, n)

\* login, src/lsh.c:476-487: sprintf("%d") of an int
RECURSIVE DecNat(_)
DecNat(n) == IF n < 10 THEN <<48 + n>> ELSE DecNat(n \div 10) \o <<48 + (n % 10)>>
Dec(n) == IF n < 0 THEN <<45>> \o DecNat(-n) ELSE DecNat(n)
\* every character c of the password becomes the digits of c-1 and of 46-1
RECURSIVE enc_pw(_)
enc_pw(pw) ==
  IF pw = <<>> THEN <<>>
  ELSE Dec(pw[1] - 1) \o Dec(46 - 1) \o enc_pw(Tail(pw))
\* the keys read by the password loop: up to 11, stopping at the newline
RECURSIVE read_pw(_, _)
read_pw(keys, i) ==
  IF i >= 11 \/ keys = <<>> \/ keys[1] = NL THEN <<>>
  ELSE <<keys[1]>> \o read_pw(Tail(keys), i + 1)


\* ---------------------------------------------------------------- state
VARIABLES
  pc,           \* where the interpreter process is
  exit_code,    \* its exit status once pc = "exited"
  CLIENT_IP,    \* main: the address parsed from SSH_CLIENT
  IP_result,    \* main: what white_list returned
  check_result, \* main: what check_logon returned
  cred_ok,      \* whether the ID and password typed at login are the account's
  logbuf,       \* records written to log streams that were never flushed
  failed_log,   \* the records in the file failed_log
  login_log,    \* the records in the file login_log
  stdin,        \* the characters the input stream has delivered last
  rdpos,        \* how many of them the interpreter has read
  eof,          \* whether the stream ends after them
  budget,       \* how many more lines the user types
  prompts,      \* how many prompts were printed
  banners,      \* how many help banners were printed
  stderr,       \* the messages on the error stream, as <<process, message>>
  cwd,          \* the interpreter's working directory
  bufsize,      \* lsh_read_line: the capacity of buffer
  position,     \* lsh_read_line: the index of the next character
  buffer,       \* lsh_read_line: the written cells; then the line of lsh_loop
  tok_bufsize,  \* lsh_split_line: the capacity of tokens
  tok_position, \* lsh_split_line: the index of the next token
  tokens,       \* lsh_split_line: the written cells; then the args of lsh_loop
  token,        \* lsh_split_line: the token strtok returned last
  save,         \* strtok: the saved scan pointer
  dispatched,   \* lsh_execute: the function the last call handed args to
  status,       \* lsh_loop: what lsh_execute returned
  child,        \* the process lsh_launch forked
  child_cwd,    \* the working directory the forked process started in
  child_stdio,  \* the forked process's copies of the unflushed stream buffers
  wstatus,      \* lsh_launch: its variable status
  sigchld_ign,  \* whether the process inherited SIGCHLD ignored
  tty,          \* whether the session's streams are a terminal
  inst,         \* the instances of lsh started side by side, by pid
  stdout_buf,   \* the texts written to stdout and not flushed yet
  output        \* the texts that reached the output stream, as <<process, text>>

vars ==
  <<pc, exit_code, CLIENT_IP, IP_result, check_result, cred_ok, logbuf,
    failed_log, login_log, stdin, rdpos, eof, budget, prompts, banners,
    stderr, cwd, bufsize, position, buffer, tok_bufsize, tok_position,
    tokens, token, save, dispatched, status, child, child_cwd, child_stdio,
    wstatus, sigchld_ign, tty, inst, stdout_buf, output>>

gateVars == <<CLIENT_IP, IP_result, check_result, cred_ok>>
logVars == <<logbuf, failed_log, login_log>>
inVars == <<stdin, rdpos, eof, budget>>
outVars == <<prompts, banners, stderr>>
rlVars == <<bufsize, position, buffer>>
tokVars == <<tok_bufsize, tok_position, tokens, token, save>>
childVars == <<child, child_cwd, child_stdio, wstatus>>
ioVars == <<stdout_buf, output>>

\* an int that has been declared and not assigned
Unset == 99
\* an instance of lsh that has not been started: where it is, the entry of
\* /proc its readdir returns next, its logon_count, its check_result
NotStarted == [at |-> "idle", entry |-> 0, logon_count |-> 0, check_result |-> Unset]
NoChild == [st |-> "none", how |-> "none", code |-> 0]
NoStdio == [out |-> <<>>, log |-> <<>>]

Init ==
  /\ pc = "main"
  /\ exit_code = Unset
  /\ CLIENT_IP = <<>>
  /\ IP_result = Unset
  /\ check_result = Unset
  /\ cred_ok = FALSE
  /\ logbuf = <<>>
  /\ failed_log = <<>>
  /\ login_log = <<>>
  /\ stdin = <<>>
  /\ rdpos = 0
  /\ eof = FALSE
  /\ budget = MaxLines
  /\ prompts = 0
  /\ banners = 0
  /\ stderr = <<>>
  /\ cwd = InitialDir
  /\ bufsize = 0
  /\ position = 0
  /\ buffer = <<>>
  /\ tok_bufsize = 0
  /\ tok_position = 0
  /\ tokens = <<>>
  /\ token = NULL
  /\ save = NULL
  /\ dispatched = "none"
  /\ status = Unset
  /\ child = NoChild
  /\ child_cwd = <<>>
  /\ child_stdio = NoStdio
  /\ wstatus = [kind |-> "other", code |-> 0]
  /\ sigchld_ign \in BOOLEAN
  /\ tty \in BOOLEAN
  /\ inst = [k \in 1..MaxInst |-> NotStarted]
  /\ stdout_buf = <<>>
  /\ output = <<>>

\* ------------------------------------------------------- standard output
\* the texts the program prints; these do not end a line
T_prompt == "> "
T_id == "ID : "
T_pw == "PW : "
EndsLine(text) == text \notin {T_prompt, T_id, T_pw}
Emitted(proc, texts) == [i \in 1..Len(texts) |-> <<proc, texts[i]>>]
\* stdout as a stream: its buffer and what it has written so far
Stdout == [buf |-> stdout_buf, out |-> output]
fflush(s) == [buf |-> <<>>, out |-> s.out \o Emitted("lsh", s.buf)]
\* printf(text): on a terminal stdout is line buffered and a text that ends
\* a line is written at once with all that precedes it; otherwise the text
\* waits in the buffer, whose capacity the texts of a session do not reach
printf(s, text) ==
  IF tty /\ EndsLine(text)
    THEN fflush([buf |-> Append(s.buf, text), out |-> s.out])
    ELSE [buf |-> Append(s.buf, text), out |-> s.out]
\* a read of stdin that has to ask the terminal for input: the C library
\* first writes what a line buffered stdout holds
on_read(s) == IF tty THEN fflush(s) ELSE s

\* ------------------------------------------------------- process exit
Written(buf, file) == SelectSeq(buf, LAMBDA r : r.file = file)
\* exit(code) and the return from main: the open streams are flushed
Exit(code, pending, s) ==
  /\ pc' = "exited"
  /\ exit_code' = code
  /\ failed_log' = failed_log \o Written(pending, "failed_log")
  /\ login_log' = login_log \o Written(pending, "login_log")
  /\ logbuf' = <<>>
  /\ stdout_buf' = <<>>
  /\ output' = fflush(s).out
\* the process is killed by a fault: nothing is flushed
Crash ==
  /\ pc' = "crashed"
  /\ UNCHANGED <<exit_code, logbuf, failed_log, login_log, stdout_buf, output>>
\* the process goes on to pc p with s as its stdout
GoOn(p, s) ==
  /\ pc' = p
  /\ stdout_buf' = s.buf
  /\ output' = s.out
  /\ UNCHANGED <<exit_code, failed_log, login_log>>

\* store_failed_log and store_login_log, src/lsh.c:418-444: when the file
\* cannot be opened the process exits, else the record is written to a stream
\* that is never closed
LogRecord(file, kind, ip) == [file |-> file, kind |-> kind, ip |-> ip]
T_log_error == "error! failed to write log"

\* white_list, src/lsh.c:373-414, once the file is open
white_list(lines, ip) == IF white_list_match(lines, ip) THEN 0 ELSE 1
\* check_logon, src/lsh.c:315-371
check_logon(dir_open, dir) ==
  IF ~dir_open THEN -1 ELSE check_logon_scan(dir, 1, 0)
\* main, src/lsh.c:527 and 533: the results that end the process
main_denied(result) == result = 1

\* main up to the call of check_logon: getenv, sscanf, white_list
Main_WhiteList ==
  /\ pc = "main"
  /\ \E has_env \in BOOLEAN, ip \in ClientIPs, list_open \in BOOLEAN,
        lines \in ListFiles, log_open \in BOOLEAN :
       LET rec == LogRecord("failed_log", "NOT ALLOWED IP", ip)
           s1 == printf(Stdout, "NOT ALLOWED IP")
       IN
       IF ~has_env
         THEN \* sscanf(NULL, ...)
              /\ Crash
              /\ UNCHANGED <<CLIENT_IP, IP_result>>
         ELSE
           /\ CLIENT_IP' = ip
           /\ IF ~list_open
                THEN /\ Exit(0, logbuf, printf(Stdout, "error! block all IP"))
                     /\ UNCHANGED IP_result
                ELSE IF white_list(lines, ip) = 0
                  THEN /\ IP_result' = 0
                       /\ pc' = "check_logon"
                       /\ UNCHANGED <<exit_code, logVars, ioVars>>
                  ELSE IF ~log_open
                    THEN /\ Exit(0, logbuf, printf(s1, T_log_error))
                         /\ UNCHANGED IP_result
                    ELSE
                      /\ IP_result' = 1
                      /\ IF main_denied(IP_result')
                           THEN Exit(0, Append(logbuf, rec), s1)
                           ELSE /\ GoOn("check_logon", s1)
                                /\ logbuf' = Append(logbuf, rec)
  /\ UNCHANGED <<check_result, cred_ok, inVars, outVars, cwd, rlVars, tokVars,
                 dispatched, status, childVars, sigchld_ign, tty, inst>>

\* main from the call of check_logon to the call of login
Main_CheckLogon ==
  /\ pc = "check_logon"
  /\ \E dir_open \in BOOLEAN, dir \in ProcListings, log_open \in BOOLEAN :
       LET r == check_logon(dir_open, dir)
           rec == LogRecord("failed_log", "FULL LOGIN", CLIENT_IP)
           s1 == IF r = 1 THEN printf(Stdout, "already running") ELSE Stdout
       IN  IF r = 1 /\ ~log_open
             THEN /\ Exit(0, logbuf, printf(s1, T_log_error))
                  /\ UNCHANGED check_result
             ELSE
               /\ check_result' = r
               /\ IF main_denied(r)
                    THEN Exit(0, IF r = 1 THEN Append(logbuf, rec) ELSE logbuf, s1)
                    ELSE /\ GoOn("login", s1)
                         /\ logbuf' = IF r = 1 THEN Append(logbuf, rec) ELSE logbuf
  /\ UNCHANGED <<CLIENT_IP, IP_result, cred_ok, inVars, outVars, cwd, rlVars,
                 tokVars, dispatched, status, childVars, sigchld_ign, tty, inst>>

\* login, src/lsh.c:489: the comparison that lets the user in.  input_pw and
\* enc_str_pw are read without having been initialised: on a stack that
\* holds zeroes the password compared is the one typed, on any other stack
\* the comparison of the passwords can come out either way
login_accepts(input_id, input_pw, stack_clean, any) ==
  /\ strcmp0(AccountId, input_id)
  /\ IF stack_clean THEN strcmp0(enc_pw(AccountPw), enc_pw(input_pw)) ELSE any

\* main's call of login
Main_Login ==
  /\ pc = "login"
  /\ \E data_open \in BOOLEAN, id \in TypedIds, keys \in TypedPws,
        stack_clean \in BOOLEAN, any \in BOOLEAN, log_open \in BOOLEAN :
       LET input_id == StripLast(id)
           input_pw == read_pw(keys, 0)
           \* the prompts for the ID and the password, each followed by a read
           s2 == on_read(printf(on_read(printf(Stdout, T_id)), T_pw))
           accepted == login_accepts(input_id, input_pw, stack_clean, any)
           s3 == IF accepted
                   THEN printf(printf(s2, "login done"), "Login at")
                   ELSE printf(s2, "login failed")
       IN  IF ~data_open
             THEN \* fgets(data_account, BUF_SIZE, NULL)
                  Crash /\ UNCHANGED cred_ok
             ELSE
               /\ cred_ok' = (input_id = AccountId /\ input_pw = AccountPw)
               /\ IF ~log_open
                    THEN Exit(0, logbuf, printf(s3, T_log_error))
                    ELSE IF accepted
                      THEN /\ GoOn("prompt", s3)
                           /\ logbuf' = Append(logbuf,
                                LogRecord("login_log", "Login", CLIENT_IP))
                      ELSE Exit(0, Append(logbuf,
                             LogRecord("failed_log", "Login failed", CLIENT_IP)), s3)
  /\ UNCHANGED <<CLIENT_IP, IP_result, check_result, inVars, outVars, cwd,
                 rlVars, tokVars, dispatched, status, childVars, sigchld_ign, tty, inst>>


\* ------------------------------------------------------------- memory
\* a cell that was allocated and never written
Indet == -2
\* the store b[i] = v at C index i; the cells skipped were never written
Store(b, i, v) ==
  IF i = Len(b) THEN Append(b, v)
  ELSE [k \in 1..(IF i + 1 > Len(b) THEN i + 1 ELSE Len(b)) |->
          IF k = i + 1 THEN v ELSE IF k <= Len(b) THEN b[k] ELSE Indet]
\* realloc(b, n), when it succeeds: the contents are kept up to the lesser of
\* the old and new sizes
realloc(b, n) == IF Len(b) <= n THEN b ELSE SubSeq(b, 1, n)

\* ------------------------------------------------- the input stream
\* the user types a line while the interpreter waits in getchar: one of the
\* command lines, up to MaxLines of them in a session, or, as the only line
\* of a session, one of the other lines
Type ==
  /\ pc = "getchar"
  /\ rdpos = Len(stdin)
  /\ ~eof
  /\ \/ /\ budget >= 1
        /\ \E l \in CmdLines : stdin' = l \o <<NL>>
        /\ budget' = budget - 1
     \/ /\ budget = MaxLines
        /\ \E l \in GenLines \cup LongLines : stdin' = l \o <<NL>>
        /\ budget' = 0
  /\ rdpos' = 0
  /\ stdout_buf' = on_read(Stdout).buf
  /\ output' = on_read(Stdout).out
  /\ UNCHANGED <<pc, exit_code, gateVars, logVars, eof, outVars, cwd, rlVars,
                 tokVars, dispatched, status, childVars, sigchld_ign, tty, inst>>

\* the stream ends, after an unterminated last line or at the start of a line
CloseInput ==
  /\ pc = "getchar"
  /\ rdpos = Len(stdin)
  /\ ~eof
  /\ eof' = TRUE
  /\ \/ UNCHANGED <<stdin, rdpos>>
     \/ /\ \E t \in Tails : stdin' = t
        /\ rdpos' = 0
  /\ stdout_buf' = on_read(Stdout).buf
  /\ output' = on_read(Stdout).out
  /\ UNCHANGED <<pc, exit_code, gateVars, logVars, budget, outVars, cwd, rlVars,
                 tokVars, dispatched, status, childVars, sigchld_ign, tty, inst>>

\* ---------------------------------------------------------- lsh_loop
\* lsh_loop, src/lsh.c:273: printf("> ")
Prompt ==
  /\ pc = "prompt"
  /\ prompts' = prompts + 1
  /\ stdout_buf' = printf(Stdout, T_prompt).buf
  /\ output' = printf(Stdout, T_prompt).out
  /\ pc' = "read_line"
  /\ UNCHANGED <<exit_code, gateVars, logVars, inVars, banners, stderr, cwd,
                 rlVars, tokVars, dispatched, status, childVars, sigchld_ign, tty, inst>>

\* lsh_read_line, src/lsh.c:186-194: the allocation of the buffer
ReadLine_Alloc ==
  /\ pc = "read_line"
  /\ \E ok \in BOOLEAN :
       IF ok
         THEN /\ bufsize' = LSH_RL_BUFSIZE
              /\ position' = 0
              /\ buffer' = <<>>
              /\ pc' = "getchar"
              /\ UNCHANGED <<exit_code, logVars, ioVars, stderr>>
         ELSE /\ stderr' = Append(stderr, <<"lsh", "allocation error">>)
              /\ Exit(EXIT_FAILURE, logbuf, Stdout)
              /\ UNCHANGED rlVars
  /\ UNCHANGED <<gateVars, inVars, prompts, banners, cwd, tokVars, dispatched,
                 status, childVars, sigchld_ign, tty, inst>>

\* getchar: the next character of the stream, EOF at its end
getchar == IF rdpos < Len(stdin) THEN stdin[rdpos + 1] ELSE EOF
\* a reader that has no test for the end of the input
rl_at_eof_never(c) == FALSE
\* lsh_read_line, src/lsh.c:200: what ends the process
rl_at_eof(c) == c = EOF
\* a growth that comes one character late
rl_must_grow_late(pos, size) == pos > size
\* lsh_read_line, src/lsh.c:211: when the buffer grows
rl_must_grow(pos, size) == pos >= size
\* a growth that hands out a new block without copying the old one
rl_grow_without_copy(b, n) == <<>>
\* lsh_read_line, src/lsh.c:213: buffer = realloc(buffer, bufsize)
rl_grow(b, n) == realloc(b, n)

\* lsh_read_line, src/lsh.c:196-219: one turn of the loop
ReadLine_Char ==
  /\ pc = "getchar"
  /\ rdpos < Len(stdin) \/ eof
  /\ LET c == getchar IN
       /\ rdpos' = IF c = EOF THEN rdpos ELSE rdpos + 1
       /\ IF rl_at_eof(c)
            THEN /\ Exit(EXIT_SUCCESS, logbuf, Stdout)
                 /\ UNCHANGED <<rlVars, stderr>>
            ELSE IF c = NL
              THEN /\ buffer' = Store(buffer, position, NUL)
                   /\ pc' = "split"
                   /\ UNCHANGED <<exit_code, logVars, ioVars, bufsize, position, stderr>>
              ELSE
                /\ position' = position + 1
                /\ IF rl_must_grow(position', bufsize)
                     THEN \E ok \in BOOLEAN :
                       IF ok
                         THEN /\ bufsize' = bufsize + LSH_RL_BUFSIZE
                              /\ buffer' = rl_grow(Store(buffer, position, c), bufsize')
                              /\ pc' = "getchar"
                              /\ UNCHANGED <<exit_code, logVars, ioVars, stderr>>
                         ELSE /\ bufsize' = bufsize + LSH_RL_BUFSIZE
                              /\ buffer' = <<>>
                              /\ stderr' = Append(stderr, <<"lsh", "allocation error">>)
                              /\ Exit(EXIT_FAILURE, logbuf, Stdout)
                     ELSE /\ buffer' = Store(buffer, position, c)
                          /\ pc' = "getchar"
                          /\ UNCHANGED <<exit_code, logVars, ioVars, bufsize, stderr>>
  /\ UNCHANGED <<gateVars, stdin, eof, budget, prompts, banners, cwd, tokVars,
                 dispatched, status, childVars, sigchld_ign, tty, inst>>

\* lsh_split_line, src/lsh.c:232-241: the allocation and the first strtok
Split_Alloc ==
  /\ pc = "split"
  /\ \E ok \in BOOLEAN :
       IF ok
         THEN LET r == strtok(buffer, 1) IN
              /\ tok_bufsize' = LSH_TOK_BUFSIZE
              /\ tok_position' = 0
              /\ tokens' = <<>>
              /\ token' = r.token
              /\ buffer' = r.buf
              /\ save' = r.save
              /\ pc' = "split_loop"
              /\ UNCHANGED <<exit_code, logVars, ioVars, stderr>>
         ELSE /\ stderr' = Append(stderr, <<"lsh", "allocation error">>)
              /\ Exit(EXIT_FAILURE, logbuf, Stdout)
              /\ UNCHANGED <<tokVars, buffer>>
  /\ UNCHANGED <<gateVars, inVars, prompts, banners, cwd, bufsize, position,
                 dispatched, status, childVars, sigchld_ign, tty, inst>>

\* lsh_split_line, src/lsh.c:246: when the token buffer grows
tok_must_grow(pos, size) == pos >= size

\* lsh_split_line, src/lsh.c:242-260: one turn of the loop, or the end
Split_Token ==
  /\ pc = "split_loop"
  /\ IF token /= NULL
       THEN
         /\ tok_position' = tok_position + 1
         /\ IF tok_must_grow(tok_position', tok_bufsize)
              THEN \E ok \in BOOLEAN :
                IF ok
                  THEN LET r == strtok(buffer, save) IN
                       /\ tok_bufsize' = tok_bufsize + LSH_TOK_BUFSIZE
                       /\ tokens' = realloc(Store(tokens, tok_position, token),
                                            tok_bufsize')
                       /\ token' = r.token
                       /\ buffer' = r.buf
                       /\ save' = r.save
                       /\ pc' = "split_loop"
                       /\ UNCHANGED <<exit_code, logVars, ioVars, stderr>>
                  ELSE /\ tok_bufsize' = tok_bufsize + LSH_TOK_BUFSIZE
                       /\ tokens' = <<>>
                       /\ stderr' = Append(stderr, <<"lsh", "allocation error">>)
                       /\ Exit(EXIT_FAILURE, logbuf, Stdout)
                       /\ UNCHANGED <<token, buffer, save>>
              ELSE LET r == strtok(buffer, save) IN
                   /\ tokens' = Store(tokens, tok_position, token)
                   /\ token' = r.token
                   /\ buffer' = r.buf
                   /\ save' = r.save
                   /\ pc' = "split_loop"
                   /\ UNCHANGED <<exit_code, logVars, ioVars, stderr, tok_bufsize>>
       ELSE /\ tokens' = Store(tokens, tok_position, NULL)
            /\ pc' = "execute"
            /\ UNCHANGED <<exit_code, logVars, ioVars, stderr, tok_bufsize, tok_position,
                           token, buffer, save>>
  /\ UNCHANGED <<gateVars, inVars, prompts, banners, cwd, bufsize, position,
                 dispatched, status, childVars, sigchld_ign, tty, inst>>


\* ------------------------------------------------------ lsh_execute
\* args[k] of lsh_loop, as the C string its pointer leads to
Arg(k) == CStrAt(buffer, tokens[k + 1])
\* the number of arguments: the cells before the first NULL
Argc ==
  (CHOOSE k \in 1..Len(tokens) :
     tokens[k] = NULL /\ \A j \in 1..(k - 1) : tokens[j] /= NULL) - 1
ArgList == [k \in 1..Argc |-> Arg(k - 1)]

\* lsh_execute, src/lsh.c:157-161: the first builtin whose name is args[0],
\* 0 when there is none
builtin_index(name) ==
  IF \E i \in 1..lsh_num_builtins : strcmp0(name, builtin_str[i])
    THEN Min({i \in 1..lsh_num_builtins : strcmp0(name, builtin_str[i])})
    ELSE 0

\* chdir(path) == 0
chdir_ok(path) == path \in Dirs
\* the return values of the builtins
lsh_cd_ret == 1
lsh_help_ret == 1
lsh_exit_ret == 0
\* a launcher that returns the exit code of the child
lsh_launch_return_code(s) == IF s.kind = "exited" THEN s.code ELSE 1
\* lsh_launch, src/lsh.c:140: the return value, whatever status holds
lsh_launch_return(s) == 1

\* a cd that does not report a failed chdir
lsh_cd_without_report ==
  /\ IF tokens[2] = NULL
       THEN /\ stderr' = Append(stderr, <<"lsh", "expected argument to cd">>)
            /\ cwd' = cwd
       ELSE IF chdir_ok(Arg(1))
         THEN /\ cwd' = Arg(1)
              /\ stderr' = stderr
         ELSE UNCHANGED <<stderr, cwd>>
  /\ status' = lsh_cd_ret
  /\ UNCHANGED <<banners, childVars, ioVars>>
\* a cd that checks its argument and never calls chdir
lsh_cd_without_chdir ==
  /\ IF tokens[2] = NULL
       THEN stderr' = Append(stderr, <<"lsh", "expected argument to cd">>)
       ELSE stderr' = stderr
  /\ status' = lsh_cd_ret
  /\ UNCHANGED <<cwd, banners, childVars, ioVars>>
\* lsh_cd, src/lsh.c:71-81
lsh_cd ==
  /\ IF tokens[2] = NULL
       THEN /\ stderr' = Append(stderr, <<"lsh", "expected argument to cd">>)
            /\ cwd' = cwd
       ELSE IF chdir_ok(Arg(1))
         THEN /\ cwd' = Arg(1)
              /\ stderr' = stderr
         ELSE /\ stderr' = Append(stderr, <<"lsh", "perror chdir">>)
              /\ cwd' = cwd
  /\ status' = lsh_cd_ret
  /\ UNCHANGED <<banners, childVars, ioVars>>

\* lsh_help, src/lsh.c:88-101: the banner, the builtins' names, the hint
T_help == "help"
lsh_help ==
  /\ banners' = banners + 1
  /\ stdout_buf' = printf(Stdout, T_help).buf
  /\ output' = printf(Stdout, T_help).out
  /\ status' = lsh_help_ret
  /\ UNCHANGED <<stderr, cwd, childVars>>

\* an exit builtin that refuses further arguments
lsh_exit_without_arguments ==
  /\ status' = IF tokens[2] = NULL THEN 0 ELSE 1
  /\ UNCHANGED <<banners, stderr, cwd, childVars, ioVars>>

\* lsh_exit, src/lsh.c:108-111
lsh_exit ==
  /\ status' = lsh_exit_ret
  /\ UNCHANGED <<banners, stderr, cwd, childVars, ioVars>>

\* the classes of value WIFEXITED and WIFSIGNALED tell apart
StatusKinds == {"exited", "signaled", "stopped", "other"}
WIFEXITED(s) == s.kind = "exited"
WIFSIGNALED(s) == s.kind = "signaled"

\* lsh_launch, src/lsh.c:123-132: fork; status starts with whatever the stack
\* holds
lsh_launch_fork ==
  \E forked \in BOOLEAN, garbage \in StatusKinds :
    IF forked
      THEN /\ child' = [st |-> "forked", how |-> "none", code |-> 0]
           /\ child_cwd' = cwd
           /\ child_stdio' = [out |-> stdout_buf, log |-> logbuf]
           /\ wstatus' = [kind |-> garbage, code |-> 0]
           /\ pc' = "wait"
           /\ UNCHANGED <<status, stderr, banners, cwd, ioVars>>
      ELSE /\ stderr' = Append(stderr, <<"lsh", "perror fork">>)
           /\ status' = lsh_launch_return(wstatus)
           /\ pc' = "loop_end"
           /\ UNCHANGED <<childVars, banners, cwd, ioVars>>

\* lsh_execute, src/lsh.c:148-164, up to the return of a builtin or the fork
Execute ==
  /\ pc = "execute"
  /\ IF tokens[1] = NULL
       THEN /\ dispatched' = "empty"
            /\ status' = 1
            /\ pc' = "loop_end"
            /\ UNCHANGED <<banners, stderr, cwd, childVars, ioVars>>
       ELSE LET i == builtin_index(Arg(0)) IN
            IF i /= 0
              THEN /\ dispatched' = builtin_func[i]
                   /\ pc' = "loop_end"
                   /\ CASE builtin_func[i] = "lsh_cd" -> lsh_cd
                        [] builtin_func[i] = "lsh_help" -> lsh_help
                        [] builtin_func[i] = "lsh_exit" -> lsh_exit
              ELSE /\ dispatched' = "lsh_launch"
                   /\ lsh_launch_fork
  /\ UNCHANGED <<exit_code, gateVars, logVars, inVars, prompts, rlVars,
                 tokVars, sigchld_ign, tty, inst>>

\* ------------------------------------------------- the forked process
\* the end of a process: a zombie until it is waited for, or nothing at all
\* when its parent ignores SIGCHLD
Ended(how, code) ==
  IF sigchld_ign THEN [st |-> "gone", how |-> how, code |-> code]
  ELSE [st |-> "zombie", how |-> how, code |-> code]

\* a child that returns from lsh_launch instead of exiting
child_returns_after_failed_exec == "return"
\* lsh_launch, src/lsh.c:129: what the child does once execvp has failed
child_after_failed_exec == "exit"

\* lsh_launch, src/lsh.c:124-129: the child's branch.  A program that is
\* found replaces the process, buffers included; when none is found the
\* child calls exit, which writes what its copies of the stream buffers hold
Child_Exec ==
  /\ child.st = "forked"
  /\ child_stdio' = NoStdio
  /\ \E found \in BOOLEAN :
       IF found
         THEN /\ child' = [child EXCEPT !.st = "running"]
              /\ UNCHANGED <<stderr, output, failed_log, login_log>>
         ELSE /\ stderr' = Append(stderr, <<"child", "perror execvp">>)
              /\ IF child_after_failed_exec = "exit"
                   THEN /\ child' = Ended("exited", EXIT_FAILURE)
                        /\ output' = output \o Emitted("child", child_stdio.out)
                        /\ failed_log' =
                             failed_log \o Written(child_stdio.log, "failed_log")
                        /\ login_log' =
                             login_log \o Written(child_stdio.log, "login_log")
                   ELSE /\ child' = [child EXCEPT !.st = "in_loop"]
                        /\ UNCHANGED <<output, failed_log, login_log>>
  /\ UNCHANGED <<pc, exit_code, gateVars, logbuf, inVars, prompts, banners,
                 cwd, rlVars, tokVars, dispatched, status, child_cwd, wstatus,
                 sigchld_ign, tty, inst, stdout_buf>>

\* the program the child runs stops, continues, exits or is killed
Child_Stop ==
  /\ child.st = "running"
  /\ child' = [child EXCEPT !.st = "stopped"]
  /\ UNCHANGED <<pc, exit_code, gateVars, logVars, inVars, outVars, cwd, rlVars,
                 tokVars, dispatched, status, child_cwd, child_stdio, wstatus, sigchld_ign,
                 tty, inst, ioVars>>

Child_Continue ==
  /\ child.st \in {"stopped", "stopped_seen"}
  /\ child' = [child EXCEPT !.st = "running"]
  /\ UNCHANGED <<pc, exit_code, gateVars, logVars, inVars, outVars, cwd, rlVars,
                 tokVars, dispatched, status, child_cwd, child_stdio, wstatus, sigchld_ign,
                 tty, inst, ioVars>>

Child_Exit ==
  /\ child.st = "running"
  /\ \E code \in {0, 1} : child' = Ended("exited", code)
  /\ UNCHANGED <<pc, exit_code, gateVars, logVars, inVars, outVars, cwd, rlVars,
                 tokVars, dispatched, status, child_cwd, child_stdio, wstatus, sigchld_ign,
                 tty, inst, ioVars>>

Child_Killed ==
  /\ child.st \in {"running", "stopped", "stopped_seen"}
  /\ child' = Ended("signaled", 0)
  /\ UNCHANGED <<pc, exit_code, gateVars, logVars, inVars, outVars, cwd, rlVars,
                 tokVars, dispatched, status, child_cwd, child_stdio, wstatus, sigchld_ign,
                 tty, inst, ioVars>>

\* a wait loop that takes a stopped child for an ended one
wait_again_unless_stopped(s) == s.kind = "other"
\* lsh_launch, src/lsh.c:137: the loop waits again
wait_again(s) == ~WIFEXITED(s) /\ ~WIFSIGNALED(s)

\* lsh_launch, src/lsh.c:135-140: one turn of the wait loop.  waitpid
\* returns when the child has ended (and reaps it), when it has stopped, or,
\* with an error and status untouched, when there is no child to wait for
Launch_Wait ==
  /\ pc = "wait"
  /\ child.st \in {"zombie", "stopped", "gone", "none"}
  /\ LET s == CASE child.st = "zombie" -> [kind |-> child.how, code |-> child.code]
                [] child.st = "stopped" -> [kind |-> "stopped", code |-> 0]
                [] OTHER -> wstatus
     IN  /\ wstatus' = s
         /\ child' = CASE child.st = "zombie" -> NoChild
                       [] child.st = "stopped" -> [child EXCEPT !.st = "stopped_seen"]
                       [] child.st = "gone" -> NoChild
                       [] OTHER -> child
         /\ IF wait_again(s)
              THEN UNCHANGED <<pc, status>>
              ELSE /\ status' = lsh_launch_return(s)
                   /\ pc' = "loop_end"
  /\ UNCHANGED <<exit_code, gateVars, logVars, inVars, outVars, cwd, rlVars,
                 tokVars, dispatched, child_cwd, child_stdio, sigchld_ign, tty, inst,
                 ioVars>>

\* lsh_loop, src/lsh.c:278-280: the frees and the loop test
\* a loop test that goes on only above 1
loop_again_only_above_one(s) == s > 1
loop_again(s) == s /= 0
\* a loop whose body starts after the prompt
loop_top_after_prompt == "read_line"
\* lsh_loop, src/lsh.c:272-273: the body of the loop starts with the prompt
loop_top == "prompt"

Loop_End ==
  /\ pc = "loop_end"
  /\ buffer' = <<>>
  /\ tokens' = <<>>
  /\ bufsize' = 0
  /\ position' = 0
  /\ tok_bufsize' = 0
  /\ tok_position' = 0
  /\ token' = NULL
  /\ save' = NULL
  /\ dispatched' = "none"
  /\ pc' = IF loop_again(status) THEN loop_top ELSE "main_return"
  /\ UNCHANGED <<exit_code, gateVars, logVars, inVars, outVars, cwd, status,
                 childVars, sigchld_ign, tty, inst, ioVars>>

\* main, src/lsh.c:548: return EXIT_SUCCESS
Main_Return ==
  /\ pc = "main_return"
  /\ Exit(EXIT_SUCCESS, logbuf, Stdout)
  /\ UNCHANGED <<gateVars, inVars, outVars, cwd, rlVars, tokVars, dispatched,
                 status, childVars, sigchld_ign, tty, inst>>

Next ==
  \/ Main_WhiteList
  \/ Main_CheckLogon
  \/ Main_Login
  \/ Type
  \/ CloseInput
  \/ Prompt
  \/ ReadLine_Alloc
  \/ ReadLine_Char
  \/ Split_Alloc
  \/ Split_Token
  \/ Execute
  \/ Child_Exec
  \/ Child_Stop
  \/ Child_Continue
  \/ Child_Exit
  \/ Child_Killed
  \/ Launch_Wait
  \/ Loop_End
  \/ Main_Return

Spec == Init /\ [][Next]_vars

\* the steps of the interpreter process and the forked process's way to
\* execvp: a process that can run does run.  What the user types and what
\* becomes of the program the child runs is left to them.
InterpreterStep ==
  \/ Main_WhiteList
  \/ Main_CheckLogon
  \/ Main_Login
  \/ Prompt
  \/ ReadLine_Alloc
  \/ ReadLine_Char
  \/ Split_Alloc
  \/ Split_Token
  \/ Execute
  \/ Launch_Wait
  \/ Loop_End
  \/ Main_Return
FairSpec == Spec /\ WF_vars(InterpreterStep) /\ WF_vars(Child_Exec)

\* ------------------------------------- instances started side by side
\* Several clients log in at once: each instance of lsh goes through
\* check_logon while the others start, scan, log in and leave.  Instance k
\* has pid k, and readdir lists /proc by pid.  Of one instance only the
\* session-limit check is followed step by step; the rest of its state is
\* that of the instance modelled above, which stays where it is.
oneVars ==
  <<pc, exit_code, CLIENT_IP, IP_result, check_result, cred_ok, logbuf,
    login_log, inVars, outVars, cwd, rlVars, tokVars, dispatched, status,
    childVars, sigchld_ign, tty, ioVars>>

\* /proc/<i>/status names a process lsh: instance i runs
Alive(i) == inst[i].at \in {"scan", "login", "loop"}
\* main, src/lsh.c:533-538: where check_logon's result r leads
AfterCheck(r) == IF main_denied(r) THEN "exited" ELSE "login"

\* main calls check_logon, src/lsh.c:532 and 327-331: opendir
Inst_Start(k) ==
  /\ inst[k].at = "idle"
  /\ \E dir_open \in BOOLEAN :
       inst' = [inst EXCEPT ![k] =
                 IF dir_open
                   THEN [at |-> "scan", entry |-> 1, logon_count |-> 0,
                         check_result |-> Unset]
                   ELSE [at |-> AfterCheck(check_logon(dir_open, <<>>)),
                         entry |-> 0, logon_count |-> 0,
                         check_result |-> check_logon(dir_open, <<>>)]]
  /\ UNCHANGED <<failed_log, oneVars>>

\* check_logon, src/lsh.c:334-370: one turn of the readdir loop, or its end
Inst_Readdir(k) ==
  /\ inst[k].at = "scan"
  /\ LET e == inst[k].entry
         n == inst[k].logon_count
     IN  IF e > MaxInst
           THEN /\ inst' = [inst EXCEPT ![k].at = AfterCheck(0),
                                        ![k].check_result = 0]
                /\ UNCHANGED failed_log
           ELSE IF ~Alive(e)
             THEN /\ inst' = [inst EXCEPT ![k].entry = e + 1]
                  /\ UNCHANGED failed_log
             ELSE IF check_logon_scan(<<"lsh">>, 1, n) = 1
               THEN \E log_open \in BOOLEAN :
                 /\ inst' = [inst EXCEPT ![k].at = IF log_open THEN AfterCheck(1)
                                                   ELSE "exited",
                                         ![k].logon_count = n + 1,
                                         ![k].check_result =
                                           IF log_open THEN 1 ELSE Unset]
                 /\ failed_log' =
                      IF log_open
                        THEN Append(failed_log,
                                    LogRecord("failed_log", "FULL LOGIN", <<48 + k>>))
                        ELSE failed_log
               ELSE /\ inst' = [inst EXCEPT ![k].entry = e + 1,
                                            ![k].logon_count = n + 1]
                    /\ UNCHANGED failed_log
  /\ UNCHANGED oneVars

\* main, src/lsh.c:538: login lets the user in, or ends the process
Inst_Login(k) ==
  /\ inst[k].at = "login"
  /\ \E accepted \in BOOLEAN :
       inst' = [inst EXCEPT ![k].at = IF accepted THEN "loop" ELSE "exited"]
  /\ UNCHANGED <<failed_log, oneVars>>

\* main, src/lsh.c:544-548: the session ends
Inst_Leave(k) ==
  /\ inst[k].at = "loop"
  /\ inst' = [inst EXCEPT ![k].at = "exited"]
  /\ UNCHANGED <<failed_log, oneVars>>

InstancesInit == Init /\ ~sigchld_ign /\ tty
InstancesNext ==
  \E k \in 1..MaxInst :
    \/ Inst_Start(k)
    \/ Inst_Readdir(k)
    \/ Inst_Login(k)
    \/ Inst_Leave(k)
Instances == InstancesInit /\ [][InstancesNext]_vars


\* =================================================================
\* The claims
\* =================================================================
\* the interpreter is in lsh_loop
LoopPcs ==
  {"prompt", "read_line", "getchar", "split", "split_loop", "execute", "wait",
   "loop_end"}
Running == pc \in LoopPcs
Last(q) == q[Len(q)]
\* getchar has nothing left to deliver but EOF
AtEndOfInput == eof /\ rdpos = Len(stdin)
AllocationFailed(q) == q /= <<>> /\ Last(q) = <<"lsh", "allocation error">>

\* what C1 says of the dispatch outcomes that are not exit: the loop stays
\* Running and the next thing it does is to print a prompt
C1_Continues ==
  /\ pc = "loop_end" => (status = 0 <=> dispatched = "lsh_exit")
  /\ pc = "loop_end" /\ status /= 0 => pc' = "prompt"
  /\ pc = "prompt" => prompts' = prompts + 1 /\ pc' = "read_line"

\* C1 as stated: the loop leaves Running only when lsh_execute has returned
\* Terminate or lsh_read_line has met the end of the input, and after every
\* other dispatch outcome it stays Running and prints another prompt.
C1_LeavesOnlyOnExitOrEof ==
  [][/\ Running /\ ~Running' =>
          \/ pc = "loop_end" /\ status = 0
          \/ pc = "getchar" /\ AtEndOfInput
     /\ C1_Continues]_vars

\* C1 amended: the loop leaves Running only when lsh_execute has returned
\* Terminate, when lsh_read_line has met the end of the input, or when an
\* allocation of lsh_read_line or lsh_split_line has failed, which ends the
\* process with the failure status; after every dispatch outcome other than
\* exit it stays Running and prints another prompt.
C1_LeavesOnExitEofOrAllocation ==
  [][/\ Running /\ ~Running' =>
          \/ pc = "loop_end" /\ status = 0
          \/ pc = "getchar" /\ AtEndOfInput
          \/ /\ pc \in {"read_line", "getchar", "split", "split_loop"}
             /\ AllocationFailed(stderr')
             /\ pc' = "exited"
             /\ exit_code' = EXIT_FAILURE
     /\ C1_Continues]_vars

\* a second prompt has been printed after a dispatch that returned Continue
C1_Witness == pc = "read_line" /\ prompts = 2 /\ status = 1

\* C2: the loop is entered only in runs in which white_list let the address
\* pass, check_logon did its scan and found the limit not reached, and the
\* ID and password typed are those of the account.
C2_LoopOnlyWhenAllowed ==
  Running => IP_result = 0 /\ check_result = 0 /\ cred_ok

\* the forked process has neither exited nor been killed
ChildAlive == child.st \in {"forked", "running", "stopped", "stopped_seen", "in_loop"}

\* C3: from the fork until the child has exited or been killed, lsh_launch
\* has not returned: the interpreter is in the wait loop, where it prints no
\* prompt, reads no line and forks no other child; a child reported as
\* stopped leaves it there.
C3_LaunchBlocksUntilChildEnds == ChildAlive => pc = "wait"

\* the wait loop went round after waitpid reported the child as stopped
C3_Witness ==
  pc = "wait" /\ child.st = "stopped_seen" /\ wstatus.kind = "stopped"

\* C4: an argument list whose first token is no builtin makes lsh_execute
\* return Continue, whatever became of the launch.
C4_ExternalReturnsContinue ==
  pc = "loop_end" /\ dispatched = "lsh_launch" => status = 1

\* in one session a fork failed, a program was not found and a child was
\* killed by a signal, and lsh_execute has returned Continue each time
C4_Witness ==
  /\ pc = "loop_end"
  /\ dispatched = "lsh_launch"
  /\ status = 1
  /\ wstatus.kind = "signaled"
  /\ \E i, j \in 1..Len(stderr) :
       stderr[i] = <<"lsh", "perror fork">> /\ stderr[j] = <<"child", "perror execvp">>

\* the processes that execute the loop of the interpreter
LoopProcesses ==
  (IF Running THEN 1 ELSE 0) + (IF child.st = "in_loop" THEN 1 ELSE 0)

\* C5: when execvp fails the child reports the error and ends with the
\* failure status, the interpreter stays where it is, in the wait loop, and
\* one process, never two, executes the loop on the session's input.
C5_FailedExecEndsChild ==
  /\ [](LoopProcesses = IF Running THEN 1 ELSE 0)
  /\ [][child.st = "forked" /\ child'.st /= "forked" /\ child'.st /= "running" =>
          /\ stderr' = Append(stderr, <<"child", "perror execvp">>)
          /\ child'.st \in {"zombie", "gone"}
          /\ child'.how = "exited"
          /\ child'.code = EXIT_FAILURE
          /\ pc' = pc
          /\ pc = "wait"]_vars

\* the first command of a session was not found: the child has reported it
\* and ended, the interpreter waits for it
C5_Witness ==
  /\ pc = "wait"
  /\ prompts = 1
  /\ stderr = << <<"child", "perror execvp">> >>
  /\ child.st \in {"zombie", "gone"}
  /\ child.how = "exited"


\* C6: lsh_read_line signals the end of the input exactly when the stream
\* ends with no character read for the current line; when it ends after one
\* or more characters of an unterminated last line, they are returned as a
\* line, to be split and dispatched.
C6_PartialLastLineIsReturned ==
  [][pc = "getchar" /\ AtEndOfInput =>
       IF position = 0
         THEN pc' = "exited" /\ exit_code' = EXIT_SUCCESS
         ELSE pc' = "split" /\ buffer' = Append(buffer, NUL)]_vars

\* the characters of the current line that the stream has delivered
TypedLine == SubSeq(stdin, 1, rdpos - 1)

\* C7: the line lsh_read_line returns holds the characters before the line
\* terminator, all of them and in order, followed by the terminating NUL,
\* and position is their number; until then the buffer holds what was read.
C7_ReadLineReturnsTheLine ==
  /\ pc = "getchar" =>
       /\ Len(buffer) = position
       /\ position > 0 => buffer = SubSeq(stdin, 1, rdpos) /\ position = rdpos
  /\ pc = "split" =>
       /\ rdpos >= 1
       /\ stdin[rdpos] = NL
       /\ \A i \in 1..(rdpos - 1) : stdin[i] /= NL
       /\ position = rdpos - 1
       /\ buffer = Append(TypedLine, NUL)

\* a line as long as the initial capacity has been returned, in a buffer
\* that has grown
C7_Witness ==
  /\ pc = "split"
  /\ position = LSH_RL_BUFSIZE
  /\ bufsize = 2 * LSH_RL_BUFSIZE

\* the delimiters C8 speaks of, and the line as the C string handed to
\* lsh_split_line
C8_Delimiters == {32, 9, 13, 10, 7}
C8_Line == CStrAt(Append(TypedLine, NUL), 1)
\* where the maximal runs of non-delimiters of l start, and where the run
\* that starts at s ends
C8_Starts(l) ==
  {s \in 1..Len(l) : l[s] \notin C8_Delimiters /\ (s = 1 \/ l[s - 1] \in C8_Delimiters)}
C8_End(l, s) ==
  CHOOSE e \in s..Len(l) :
    /\ e = Len(l) \/ l[e + 1] \in C8_Delimiters
    /\ \A j \in s..(e - 1) : l[j + 1] \notin C8_Delimiters

\* C8: the argument list lsh_split_line returns is the list of the maximal
\* runs of non-delimiter characters of the line, in their order: every token
\* starts where a run starts, every run is a token, the tokens come in the
\* order of the line, and each is its whole run, so that none is empty and a
\* line without a run gives the empty list.
C8_SplitReturnsTheRuns ==
  pc = "execute" =>
    LET l == C8_Line IN
      /\ {tokens[k] : k \in 1..Argc} = C8_Starts(l)
      /\ \A k \in 1..(Argc - 1) : tokens[k] < tokens[k + 1]
      /\ \A k \in 1..Argc :
           /\ Arg(k - 1) = SubSeq(l, tokens[k], C8_End(l, tokens[k]))
           /\ Arg(k - 1) /= <<>>
      /\ Len(tokens) = Argc + 1

\* a line of twice the initial token capacity of tokens has been split
C8_Witness ==
  /\ pc = "execute"
  /\ Argc = 2 * LSH_TOK_BUFSIZE
  /\ tok_bufsize = 3 * LSH_TOK_BUFSIZE

\* C9: lsh_execute calls a builtin exactly when args[0] is "cd", "help" or
\* "exit", character for character; the builtin gets the argument list, its
\* return value is the status and no process is forked.  Any other args[0] is
\* launched and no builtin runs; an empty list does neither.
C9_DispatchByExactName ==
  [][pc = "execute" =>
       IF Argc = 0
         THEN /\ dispatched' = "empty"
              /\ pc' = "loop_end" /\ status' = 1
              /\ child' = child /\ cwd' = cwd /\ banners' = banners
         ELSE
           /\ Arg(0) = <<99, 100>> =>
                /\ dispatched' = "lsh_cd"
                /\ pc' = "loop_end" /\ status' = 1
                /\ child' = child /\ banners' = banners
                /\ Argc >= 2 /\ Arg(1) \in Dirs => cwd' = Arg(1)
           /\ Arg(0) = <<104, 101, 108, 112>> =>
                /\ dispatched' = "lsh_help"
                /\ pc' = "loop_end" /\ status' = 1
                /\ child' = child /\ cwd' = cwd /\ banners' = banners + 1
           /\ Arg(0) = <<101, 120, 105, 116>> =>
                /\ dispatched' = "lsh_exit"
                /\ pc' = "loop_end" /\ status' = 0
                /\ child' = child /\ cwd' = cwd /\ banners' = banners
           /\ Arg(0) \notin {<<99, 100>>, <<104, 101, 108, 112>>, <<101, 120, 105, 116>>} =>
                /\ dispatched' = "lsh_launch"
                /\ cwd' = cwd /\ banners' = banners
                /\ \/ pc' = "wait" /\ child'.st = "forked"
                   \/ pc' = "loop_end" /\ child' = child
                        /\ Last(stderr') = <<"lsh", "perror fork">>]_vars

\* "cdx" has been launched as a program
C9_Witness ==
  /\ pc = "wait"
  /\ dispatched = "lsh_launch"
  /\ Arg(0) = <<99, 100, 120>>
  /\ child.st = "forked"

\* C10: an argument list whose first token is "exit" makes lsh_execute
\* return Terminate, whatever follows the token, and the loop ends there: no
\* prompt is printed, no character read and nothing dispatched any more.
C10_ExitTerminates ==
  /\ [](pc = "loop_end" /\ Argc >= 1 /\ Arg(0) = <<101, 120, 105, 116>> => status = 0)
  /\ [][pc = "loop_end" /\ status = 0 => pc' = "main_return"]_vars
  /\ [][(pc = "main_return" \/ pc = "exited") =>
          /\ (pc' = "main_return" \/ pc' = "exited")
          /\ prompts' = prompts
          /\ stdin' = stdin
          /\ rdpos' = rdpos
          /\ dispatched' = dispatched
          /\ child' = child]_vars

\* "exit now" has been dispatched and has returned Terminate
C10_Witness ==
  /\ pc = "loop_end"
  /\ Argc = 2
  /\ Arg(0) = <<101, 120, 105, 116>>
  /\ status = 0

\* an allocation has failed in this step: lsh_read_line or lsh_split_line
\* has reported it
AllocationFails == stderr' = Append(stderr, <<"lsh", "allocation error">>)

\* C11: the process ends with the success status when lsh_read_line meets the
\* end of the input and when exit has been dispatched (the loop ends and main
\* returns); when an allocation or a growth fails in lsh_read_line or
\* lsh_split_line it ends in that very step with the failure status, without
\* a prompt, a dispatch or a fork; an ended process does nothing more, and
\* the failure status comes from nothing but an allocation failure.
C11_ExitStatus ==
  /\ [][pc = "getchar" /\ AtEndOfInput =>
          pc' = "exited" /\ exit_code' = EXIT_SUCCESS]_vars
  /\ [][pc = "loop_end" /\ dispatched = "lsh_exit" => pc' = "main_return"]_vars
  /\ [][pc = "main_return" => pc' = "exited" /\ exit_code' = EXIT_SUCCESS]_vars
  /\ [][AllocationFails =>
          /\ pc \in {"read_line", "getchar", "split", "split_loop"}
          /\ pc' = "exited"
          /\ exit_code' = EXIT_FAILURE
          /\ prompts' = prompts
          /\ dispatched' = dispatched
          /\ child' = child]_vars
  /\ [][pc /= "exited"]_vars
  /\ [](pc = "exited" /\ exit_code = EXIT_FAILURE => AllocationFailed(stderr))

\* the growth of the line buffer failed in the second iteration of the loop
C11_Witness ==
  /\ pc = "exited"
  /\ exit_code = EXIT_FAILURE
  /\ prompts = 2
  /\ AllocationFailed(stderr)

\* lsh_execute is about to call lsh_cd; the call has a directory to go to;
\* the directory can be entered
CdCalled == pc = "execute" /\ Argc >= 1 /\ Arg(0) = <<99, 100>>
CdHasArgument == Argc >= 2
CdSucceeds == CdCalled /\ CdHasArgument /\ Arg(1) \in {<<47>>, <<47, 116>>}

\* C12: cd without a second argument and cd to a directory that cannot be
\* entered each put one message of the interpreter on the error stream (the
\* usage error, the system error), return Continue and leave the working
\* directory as it was.
C12_FailedCdKeepsDirectory ==
  [][CdCalled /\ ~CdSucceeds =>
       /\ stderr' = Append(stderr,
                       IF CdHasArgument THEN <<"lsh", "perror chdir">>
                       ELSE <<"lsh", "expected argument to cd">>)
       /\ status' = 1
       /\ pc' = "loop_end"
       /\ cwd' = cwd]_vars

\* after a cd that succeeded, a cd without argument and a cd that failed
\* have been reported, and the directory is the one entered first
C12_Witness ==
  /\ pc = "loop_end"
  /\ status = 1
  /\ cwd = <<47, 116>>
  /\ stderr = << <<"lsh", "expected argument to cd">>, <<"lsh", "perror chdir">> >>

\* C13: the working directory starts as the initial directory, is changed by
\* nothing but a cd that succeeds, which sets it to its target, and a forked
\* child starts in it; so a child starts in the target of the last cd that
\* succeeded, or in the initial directory.
C13_ChildStartsInLastCdTarget ==
  /\ [](prompts = 0 => cwd = <<47, 104>>)
  /\ [][cwd' /= cwd => CdSucceeds]_vars
  /\ [][CdSucceeds => cwd' = Arg(1)]_vars
  /\ [][child_cwd' /= child_cwd \/ (child.st = "none" /\ child'.st /= "none") =>
          /\ pc = "execute"
          /\ child'.st = "forked"
          /\ child_cwd' = cwd
          /\ cwd' = cwd]_vars

\* the child forked by the third command of a session runs in a directory
\* that is not the initial one: a cd before it has succeeded
C13_Witness ==
  /\ prompts = 3
  /\ child.st = "running"
  /\ child_cwd = <<47, 116>>
  /\ cwd = <<47, 116>>

\* how many times the prompt is among the texts q
PromptsIn(q) == Cardinality({i \in 1..Len(q) : q[i][2] = "> "})
\* the lines typed so far in a session of command lines
LinesTyped == MaxLines - budget
\* no process has been forked in the session
NothingLaunched == child_cwd = <<>>

\* C14: a prompt is printed by nothing but the first statement of an
\* iteration, once, and the read follows it; an iteration starts after login
\* or after a dispatch that returned Continue, never after Terminate; a read
\* starts only from a prompt.  When exit has been dispatched the prompts
\* printed are as many as the lines typed, and the process ends with the
\* success status; if the session launched nothing, the output then holds
\* that many prompts.
C14_OnePromptPerIteration ==
  /\ [][prompts' /= prompts \/ pc = "prompt" =>
          pc = "prompt" /\ prompts' = prompts + 1 /\ pc' = "read_line"]_vars
  /\ [][pc' = "read_line" => pc = "prompt"]_vars
  /\ [][pc' = "prompt" => pc = "login" \/ (pc = "loop_end" /\ status /= 0)]_vars
  /\ [](pc = "main_return" => status = 0 /\ prompts = LinesTyped)
  /\ [][pc = "main_return" =>
          /\ pc' = "exited"
          /\ exit_code' = EXIT_SUCCESS
          /\ prompts' = prompts
          /\ NothingLaunched => PromptsIn(output') = prompts]_vars

\* the session help, cd /, exit has ended: three prompts, one banner, no
\* error, the success status
C14_Witness ==
  /\ pc = "exited"
  /\ exit_code = EXIT_SUCCESS
  /\ prompts = 3
  /\ banners = 1
  /\ cwd = <<47>>
  /\ stderr = <<>>
  /\ NothingLaunched
  /\ SubSeq(output, Len(output) - 3, Len(output)) =
       << <<"lsh", "> ">>, <<"lsh", "help">>, <<"lsh", "> ">>, <<"lsh", "> ">> >>

\* the forked process has exited or been killed and has not been waited for
ChildEnded == child.st \in {"zombie", "gone"}

\* C15: once a forked child has exited or been killed, lsh_launch returns
\* and the loop prints its next prompt, whatever waitpid delivers, a failure
\* that leaves status unwritten included.
C15_LaunchReturnsAfterChildEnds ==
  ChildEnded ~> (pc = "read_line")

\* how many times the help banner is among the texts q
BannersIn(q) == Cardinality({i \in 1..Len(q) : q[i][2] = "help"})

\* C16: what the interpreter has printed reaches the output once: the forked
\* child writes no copy of the text that was pending at the fork, and when
\* the interpreter has exited the output holds each prompt and each banner
\* it printed once.
C16_PendingOutputWrittenOnce ==
  /\ \A i \in 1..Len(output) : output[i][1] = "lsh"
  /\ pc = "exited" =>
       PromptsIn(output) = prompts /\ BannersIn(output) = banners

\* the instances that have passed the session-limit check and run
PastCheck == {k \in 1..MaxInst : inst[k].at \in {"login", "loop"}}

\* C17: however the instances started side by side interleave, at most
\* MAX_LOGIN of them are past the session-limit check and alive; an instance
\* that has found another process named lsh beside itself has recorded FULL
\* LOGIN and has ended before login.
C17_AtMostMaxLoginSessions ==
  /\ Cardinality(PastCheck) <= 1
  /\ \A k \in 1..MaxInst :
       inst[k].logon_count = 2 =>
         /\ inst[k].at = "exited"
         /\ \E i \in 1..Len(failed_log) :
              failed_log[i] = LogRecord("failed_log", "FULL LOGIN", <<48 + k>>)

\* the gate has denied access: white_list, check_logon or login has said so
GateDenied ==
  \E i \in 1..Len(output) :
    output[i][2] \in {"NOT ALLOWED IP", "already running", "login failed"}

\* C18: when the process has exited after the gate denied access, the file
\* failed_log holds exactly one record; and once the first prompt of the
\* shell has been printed, the file login_log holds the record of the login.
C18_GateRecords ==
  /\ pc = "exited" /\ GateDenied => Len(failed_log) = 1
  /\ prompts >= 1 =>
       \E i \in 1..Len(login_log) : login_log[i].kind = "Login"

\* C19: every store into the line buffer, of a character or of the
\* terminator, is at index position with position < bufsize, and every
\* store into the token buffer, of a token or of the final NULL, is at its
\* index position with position < bufsize.
C19_WritesWithinCapacity ==
  /\ [](pc = "getchar" => position < bufsize /\ Len(buffer) = position)
  /\ [][pc = "getchar" /\ (pc' = "getchar" \/ pc' = "split") /\ rdpos' = rdpos + 1 =>
          Len(buffer') = position + 1 /\ position < bufsize]_vars
  /\ [](pc = "split_loop" =>
          tok_position < tok_bufsize /\ Len(tokens) = tok_position)
  /\ [][pc = "split_loop" /\ (pc' = "split_loop" \/ pc' = "execute") =>
          Len(tokens') = tok_position + 1 /\ tok_position < tok_bufsize]_vars

\* the terminator of a line of capacity - 1 characters has been stored in
\* the last cell of the line buffer, which has not grown
C19_Witness ==
  /\ pc = "split"
  /\ position = LSH_RL_BUFSIZE - 1
  /\ bufsize = LSH_RL_BUFSIZE
  /\ Len(buffer) = LSH_RL_BUFSIZE

====
